---- MODULE Spec2Model ----
(***************************************************************************)
(* astroquery.nrao.core: the constraint-to-query compiler (_gen_sql over   *)
(* NRAO_FORM_KEYS) and the lazy service-endpoint slots of NraoClass.       *)
(*                                                                         *)
(* Strings that the code builds by concatenation or formatting are         *)
(* sequences of string pieces (their concatenation is the Python string);  *)
(* strings that are only compared are TLA+ strings.  A dict is the         *)
(* sequence of its items [k, v] in insertion order, keys distinct.         *)
(***************************************************************************)
EXTENDS Naturals, Sequences, FiniteSets, TLC

\* ------------------------------------------------------------------ bounds
\* most constraints in a mapping handed to the compiler
MaxLen == 2
\* most string pieces in one constraint value
MaxValLen == 7

VARIABLES
    payload,    \* the caller's constraint mapping (the dict object it passes)
    registry,   \* the module-level NRAO_FORM_KEYS
    self,       \* the NraoClass instance: its six lazy slots
    last,       \* what the last completed operation was and what it gave back
    hist,       \* history: first outcomes, for comparing later ones
    ctx         \* execution contexts inside a URL property (concurrent accesses)

vars == <<payload, registry, self, last, hist, ctx>>

\* ------------------------------------------------------------- Python values
None == [tag |-> "None"]

\* ---------------------------------------------------------------- dicts
RECURSIVE IndexOf(_, _, _)
IndexOf(d, k, i) ==
    IF i > Len(d) THEN 0
    ELSE IF d[i].k = k THEN i ELSE IndexOf(d, k, i + 1)

HasKey(d, k) == IndexOf(d, k, 1) # 0

\* d[k], for a key that is present
Get(d, k) == d[IndexOf(d, k, 1)].v

\* d[k] = v: a present key keeps its position, a new key goes last
Put(d, k, v) ==
    IF HasKey(d, k)
    THEN [d EXCEPT ![IndexOf(d, k, 1)] = [k |-> k, v |-> v]]
    ELSE Append(d, [k |-> k, v |-> v])

\* d.pop(k), for a key that is present
Pop(d, k) ==
    LET i == IndexOf(d, k, 1)
    IN  SubSeq(d, 1, i - 1) \o SubSeq(d, i + 1, Len(d))

\* ------------------------------------------------------------- the registry
\* (mutant) the 'Field of view' entry names the column of another entry
NRAO_FORM_KEYS_SharedColumn ==
    << [category |-> "Position",
        attribs |-> <<
          [label |-> "Angular resolution (arcsec)",
           attrib |-> <<"spatial_resolution", "spatial_resolution", "_gen_numeric_sql">>],
          [label |-> "Field of view (arcsec)",
           attrib |-> <<"fov", "spatial_resolution", "_gen_numeric_sql">>] >>] >>

NRAO_FORM_KEYS ==
    << [category |-> "Position",
        attribs |-> <<
          [label |-> "Source name (astropy Resolver)",
           attrib |-> <<"source_name_resolver", "SkyCoord.from_name", "_gen_pos_sql">>],
          [label |-> "Source name (NRAO)",
           attrib |-> <<"source_name_alma", "target_name", "_gen_str_sql">>],
          [label |-> "RA Dec (Sexagesimal)",
           attrib |-> <<"ra_dec", "s_ra, s_dec", "_gen_pos_sql">>],
          [label |-> "Galactic (Degrees)",
           attrib |-> <<"galactic", "gal_longitude, gal_latitude", "_gen_pos_sql">>],
          [label |-> "Angular resolution (arcsec)",
           attrib |-> <<"spatial_resolution", "spatial_resolution", "_gen_numeric_sql">>],
          [label |-> "Largest angular scale (arcsec)",
           attrib |-> <<"spatial_scale_max", "spatial_scale_max", "_gen_numeric_sql">>],
          [label |-> "Field of view (arcsec)",
           attrib |-> <<"fov", "s_fov", "_gen_numeric_sql">>] >>] >>

\* the lists visited by `for attrib_category in ...values(): for attrib in
\* attrib_category.values()`, in visiting order
RECURSIVE AttribsFrom(_, _)
AttribsFrom(reg, c) ==
    IF c > Len(reg) THEN << >>
    ELSE [i \in 1..Len(reg[c].attribs) |-> reg[c].attribs[i].attrib]
         \o AttribsFrom(reg, c + 1)

\* (mutant) the membership test reads only the column entry
InAttribColumnOnly(constraint, attrib) == constraint = attrib[2]

\* `constraint in attrib`: list membership by ==.  attrib[2] (Python index 2)
\* is a function object, which no str key equals, so only the two strings count.
InAttrib(constraint, attrib) ==
    constraint = attrib[1] \/ constraint = attrib[2]

\* ---------------------------------------------------------------- encoders
\* The encoders live in astroquery.alma.tapsql and astroquery.nrao.tapsql.
\* Each gives [ok, frag]: a predicate fragment (<< >> is the empty string), or
\* not ok when it cannot interpret the value (it raises).
Numerals == {"5", "7"}

IsNumber(value) == Len(value) = 1 /\ value[1] \in Numerals

\* a position "<coordinates>, <radius>"
IsPosition(value) == Len(value) = 3 /\ value[2] = ", "

\* the pieces of value before the first " | " piece, and after it
RECURSIVE SepAt(_, _)
SepAt(value, i) ==
    IF i > Len(value) THEN 0
    ELSE IF value[i] = " | " THEN i ELSE SepAt(value, i + 1)

RECURSIVE SplitAlternatives(_)
SplitAlternatives(value) ==
    LET i == SepAt(value, 1)
    IN  IF i = 0 THEN << value >>
        ELSE << SubSeq(value, 1, i - 1) >>
             \o SplitAlternatives(SubSeq(value, i + 1, Len(value)))

_gen_numeric_sql(field, value) ==
    IF value = << >> THEN [ok |-> TRUE, frag |-> << >>]
    ELSE IF IsNumber(value)
    THEN [ok |-> TRUE, frag |-> <<field, "=", value[1]>>]
    ELSE [ok |-> FALSE, frag |-> << >>]

_gen_str_sql(field, value) ==
    IF value = << >> THEN [ok |-> TRUE, frag |-> << >>]
    ELSE [ok |-> TRUE, frag |-> <<field, " LIKE '%">> \o value \o <<"%'">>]

RECURSIVE OrJoin(_, _, _)
OrJoin(field, parts, i) ==
    IF i > Len(parts) THEN << >>
    ELSE (IF i > 1 THEN <<" OR ">> ELSE << >>)
         \o <<"INTERSECTS(CIRCLE(">> \o parts[i] \o <<"), ", field, ")">>
         \o OrJoin(field, parts, i + 1)

\* object names that SkyCoord.from_name resolves
ResolvableNames == {"M31"}

IsName(value) == Len(value) = 1 /\ value[1] \in ResolvableNames

_gen_pos_sql(field, value) ==
    LET parts == SplitAlternatives(value)
        Interpretable(part) == IF field = "SkyCoord.from_name" THEN IsName(part)
                               ELSE IsPosition(part)
    IN  IF value = << >> THEN [ok |-> TRUE, frag |-> << >>]
        ELSE IF \A i \in 1..Len(parts) : Interpretable(parts[i])
        THEN [ok |-> TRUE,
              frag |-> IF Len(parts) = 1 THEN OrJoin(field, parts, 1)
                       ELSE <<"(">> \o OrJoin(field, parts, 1) \o <<")">>]
        ELSE [ok |-> FALSE, frag |-> << >>]

\* attrib[2](attrib[1], val): the call of the registered encoder
CallEncoder(encoder, field, value) ==
    CASE encoder = "_gen_pos_sql" -> _gen_pos_sql(field, value)
      [] encoder = "_gen_str_sql" -> _gen_str_sql(field, value)
      [] encoder = "_gen_numeric_sql" -> _gen_numeric_sql(field, value)

\* ---------------------------------------------------------------- _gen_sql
BaseSelect == <<"select * from tap_schema.obscore">>

\* (mutant) the constraint is consumed only when its fragment is not empty
VisitAttribKeepsEmpty(st, pl, constraint, attrib) ==
    IF st.exc # "none" \/ ~InAttrib(constraint, attrib) THEN st
    ELSE
      LET val == Get(pl, constraint)
          enc == IF constraint = "em_resolution"
                 THEN _gen_numeric_sql(constraint, val)
                 ELSE CallEncoder(attrib[3], attrib[2], val)
      IN  IF ~enc.ok THEN [st EXCEPT !.exc = "ValueError"]
          ELSE IF enc.frag = << >> THEN st
          ELSE [st EXCEPT !.where = (IF st.where # << >> THEN st.where \o <<" AND ">>
                                     ELSE <<" WHERE ">>) \o enc.frag,
                          !.unused_payload = Pop(st.unused_payload, constraint)]

\* (mutant) the fragment is appended without the test `if attrib_where`
VisitAttribAlwaysJoins(st, pl, constraint, attrib) ==
    IF st.exc # "none" \/ ~InAttrib(constraint, attrib) THEN st
    ELSE
      LET val == Get(pl, constraint)
          enc == IF constraint = "em_resolution"
                 THEN _gen_numeric_sql(constraint, val)
                 ELSE CallEncoder(attrib[3], attrib[2], val)
      IN  IF ~enc.ok THEN [st EXCEPT !.exc = "ValueError"]
          ELSE [st EXCEPT !.where = (IF st.where # << >> THEN st.where \o <<" AND ">>
                                     ELSE <<" WHERE ">>) \o enc.frag,
                          !.unused_payload = Pop(st.unused_payload, constraint)]

\* lines 74-94: one attrib visited for one constraint.  st is the function's
\* locals [where, unused_payload] and exc, the exception that ended it.
VisitAttrib(st, pl, constraint, attrib) ==
    IF st.exc # "none" \/ ~InAttrib(constraint, attrib) THEN st
    ELSE
      LET val == Get(pl, constraint)
          enc == IF constraint = "em_resolution"
                 THEN _gen_numeric_sql(constraint, val)
                 ELSE CallEncoder(attrib[3], attrib[2], val)
          where2 == IF enc.frag # << >>
                    THEN (IF st.where # << >> THEN st.where \o <<" AND ">>
                          ELSE <<" WHERE ">>) \o enc.frag
                    ELSE st.where
      IN  IF ~enc.ok THEN [st EXCEPT !.exc = "ValueError"]
          ELSE IF ~HasKey(st.unused_payload, constraint)
          THEN [st EXCEPT !.where = where2, !.exc = "KeyError"]
          ELSE [st EXCEPT !.where = where2,
                          !.unused_payload = Pop(st.unused_payload, constraint)]

RECURSIVE ScanAttribs(_, _, _, _, _)
ScanAttribs(st, pl, constraint, attribs, j) ==
    IF j > Len(attribs) THEN st
    ELSE ScanAttribs(VisitAttrib(st, pl, constraint, attribs[j]),
                     pl, constraint, attribs, j + 1)

RECURSIVE ScanPayload(_, _, _, _)
ScanPayload(st, pl, reg, i) ==
    IF i > Len(pl) THEN st
    ELSE ScanPayload(ScanAttribs(st, pl, pl[i].k, AttribsFrom(reg, 1), 1),
                     pl, reg, i + 1)

\* line 98: [f'{p} -> {unused_payload[p]}' for p in unused_payload]
Remaining(unused) ==
    [i \in 1..Len(unused) |-> <<unused[i].k, " -> ">> \o unused[i].v]

Returned(sql) ==
    [tag |-> "outcome", kind |-> "return", sql |-> sql, remaining |-> << >>]
Raised(exc, remaining) ==
    [tag |-> "outcome", kind |-> exc, sql |-> << >>, remaining |-> remaining]

\* (mutant) unused_payload is the payload object itself, not a copy
PayloadAliased(pl, unused) == unused

\* the payload object as _gen_sql leaves it: it works on unused_payload, its copy
PayloadAfterGenSql(pl, unused) == pl

\* lines 96-101: the end of _gen_sql, with st the locals after the loop
GenSqlEnd(st, pl, reg) ==
    [out |-> IF st.exc # "none" THEN Raised(st.exc, << >>)
             ELSE IF st.unused_payload # << >>
             THEN Raised("TypeError", Remaining(st.unused_payload))
             ELSE Returned(BaseSelect \o st.where),
     payload |-> PayloadAfterGenSql(pl, st.unused_payload),
     registry |-> reg]

\* lines 67-69: the locals before the loop
GenSqlStart(pl) == [where |-> << >>, unused_payload |-> pl, exc |-> "none"]

\* _gen_sql(payload): what it gives back (out) and what it leaves of the two
\* objects it reads (the caller's dict and the registry)
_gen_sql(pl, reg) ==
    GenSqlEnd(IF pl # << >> THEN ScanPayload(GenSqlStart(pl), pl, reg, 1)
              ELSE GenSqlStart(pl),
              pl, reg)

\* ------------------------------------------------------------ URLs, urljoin
\* a URL: what precedes the path, and the path split at "/"
Url(netloc, path) == [tag |-> "url", netloc |-> netloc, path |-> path]
EmptyUrl == Url("", <<"">>)

\* truth value of a slot in `if not self._x`: None and '' are false
Truthy(v) == v # None /\ v # EmptyUrl

\* urllib.parse.urljoin(base, url) for a relative url of one path segment: the
\* base's last segment is dropped unless it is empty (the base ends in "/"),
\* the url is appended, and empty segments strictly inside are dropped.
urljoin(base, url) ==
    IF base = EmptyUrl THEN Url("", <<url>>)
    ELSE
      LET bpath == base.path
          base_parts == IF bpath[Len(bpath)] # ""
                        THEN SubSeq(bpath, 1, Len(bpath) - 1) ELSE bpath
          segments == base_parts \o <<url>>
          n == Len(segments)
          inner == SelectSeq(SubSeq(segments, 2, n - 1), LAMBDA x : x # "")
      IN  Url(base.netloc,
              IF n <= 1 THEN <<"">> \o segments
              ELSE <<segments[1]>> \o inner \o <<segments[n]>>)

\* names bound at module level and read by the URL properties
ModuleGlobals == [TAP_SERVICE_PATH |-> "tap"]

\* reading a global name: its value, or NameError when nothing binds it
LoadGlobal(name) ==
    IF name \in DOMAIN ModuleGlobals
    THEN [ok |-> TRUE, v |-> ModuleGlobals[name]]
    ELSE [ok |-> FALSE, v |-> ""]

\* what the list tap_urls of the package may hold when the provider reads it
ArchiveRoot == Url("https://data.nrao.edu", <<"", "">>)
ArchiveSub == Url("https://data.nrao.edu", <<"", "archive", "">>)
ArchiveFile == Url("https://data.nrao.edu", <<"", "archive">>)
TapUrlsChoices == { << >>, <<ArchiveFile>>, <<ArchiveSub, ArchiveRoot>> }

_get_dataarchive_url(tap_urls) ==
    IF Len(tap_urls) = 0 THEN [exc |-> "IndexError", v |-> None]
    ELSE [exc |-> "none", v |-> tap_urls[1]]

\* ------------------------------------------------------------ the instance
\* NraoClass.__init__
NewInstance ==
    [_sia |-> None, _tap |-> None, _datalink |-> None,
     _sia_url |-> None, _tap_url |-> None, _datalink_url |-> None]

UrlSlots == {"_tap_url", "_sia_url", "_datalink_url"}
HandleSlots == {"_tap", "_sia", "_datalink"}

\* what a method gives: the instance after it, the value returned or the
\* exception raised, and how often it invoked the provider and tap.search
Res(s, ret, exc, fetched, searched) ==
    [self |-> s, ret |-> ret, exc |-> exc, fetched |-> fetched, searched |-> searched]

\* (mutant) the property resolves on every access
AlwaysResolves(s, slot) == TRUE

\* whether a URL property resolves: `if not self._x_url`
NeedsResolution(s, slot) == ~Truthy(s[slot])

\* the body shared by the three URL properties:
\*   if not self._x_url:
\*       try: self._x_url = urljoin(self._get_dataarchive_url(), X_SERVICE_PATH)
\*       except HTTPError: log; raise
\*   return self._x_url
\* The arguments of urljoin are evaluated left to right: the provider is
\* invoked before the path name is read.
UrlProperty(s, slot, pathName, tap_urls) ==
    IF NeedsResolution(s, slot)
    THEN LET b == _get_dataarchive_url(tap_urls)
             p == LoadGlobal(pathName)
         IN  IF b.exc # "none" THEN Res(s, None, b.exc, 1, 0)
             ELSE IF ~p.ok THEN Res(s, None, "NameError", 1, 0)
             ELSE LET s2 == [s EXCEPT ![slot] = urljoin(b.v, p.v)]
                  IN  Res(s2, s2[slot], "none", 1, 0)
    ELSE Res(s, s[slot], "none", 0, 0)

datalink_url(s, tap_urls) == UrlProperty(s, "_datalink_url", "DATALINK_SERVICE_PATH", tap_urls)

\* (mutant) a failed resolution resets the instance's slots
sia_url_clearing(s, tap_urls) ==
    LET r == UrlProperty(s, "_sia_url", "SIA_SERVICE_PATH", tap_urls)
    IN  [r EXCEPT !.self = IF r.exc # "none" THEN NewInstance ELSE @]

sia_url(s, tap_urls) == UrlProperty(s, "_sia_url", "SIA_SERVICE_PATH", tap_urls)

tap_url(s, tap_urls) == UrlProperty(s, "_tap_url", "TAP_SERVICE_PATH", tap_urls)

\* a typed service handle bound to a URL
Handle(service, baseurl) == [tag |-> "handle", service |-> service, baseurl |-> baseurl]

\* the body shared by the three handle properties:
\*   if not self._x: self._x = Service(self.x_url)
\*   return self._x
HandleProperty(s, slot, service, u) ==
    IF s[slot] = None
    THEN IF u.exc # "none" THEN u
         ELSE LET s2 == [u.self EXCEPT ![slot] = Handle(service, u.ret)]
              IN  Res(s2, s2[slot], "none", u.fetched, 0)
    ELSE Res(s, s[slot], "none", 0, 0)

datalink(s, tap_urls) == HandleProperty(s, "_datalink", "DatalinkService", datalink_url(s, tap_urls))

sia(s, tap_urls) == HandleProperty(s, "_sia", "SIA2Service", sia_url(s, tap_urls))

tap(s, tap_urls) == HandleProperty(s, "_tap", "TAPService", tap_url(s, tap_urls))

\* what the remote service answers to a search
SearchOutcomes == {"result", "None", "DALServiceError"}
Table(query) == [tag |-> "table", query |-> query]

\* line 190: .search(query, ...) on h, the result of reading self.tap
Search(h, query, answer) ==
    IF h.exc # "none" THEN h
    ELSE IF answer = "DALServiceError" THEN Res(h.self, None, answer, h.fetched, 1)
    ELSE IF answer = "None" THEN Res(h.self, None, "none", h.fetched, 1)
    ELSE Res(h.self, Table(query), "none", h.fetched, 1)

\* query_tap: self.tap.search(query, ...)
query_tap(s, query, tap_urls, answer) == Search(tap(s, tap_urls), query, answer)

\* ------------------------------------------------------------ query methods
\* a dict object held by the caller (None when the caller holds none)
Dict(d) == [tag |-> "dict", d |-> d]

\* what a query method gives: as Res, and the caller's payload object and the
\* registry as the call leaves them
QRes(r, pl, reg) ==
    [self |-> r.self, ret |-> r.ret, exc |-> r.exc, fetched |-> r.fetched,
     searched |-> r.searched, payload |-> pl, registry |-> reg]

\* lines 272-277: for arg in kwargs: merge into payload
RECURSIVE MergeKwargs(_, _, _)
MergeKwargs(d, kwargs, i) ==
    IF i > Len(kwargs) THEN d
    ELSE LET arg == kwargs[i].k
             value == kwargs[i].v
         IN  MergeKwargs(IF HasKey(d, arg)
                         THEN Put(d, arg, Get(d, arg) \o <<" ">> \o value)
                         ELSE Put(d, arg, value),
                         kwargs, i + 1)

\* (mutant) the flag is not consulted
IgnoresFlag(get_query_payload) == FALSE

\* line 281: whether query_async hands the compiled string back unexecuted
ReturnsPayload(get_query_payload) == get_query_payload

\* lines 288-294: r is what query_tap gave
ToTable(r) ==
    IF r.exc = "none" /\ r.ret = None
    THEN Res(r.self, None, "RuntimeError", r.fetched, r.searched)
    ELSE r

\* lines 279-294: g is what _gen_sql gave for the merged payload
AfterGenSql(s, g, get_query_payload, tap_urls, answer) ==
    IF g.out.kind # "return" THEN Res(s, None, g.out.kind, 0, 0)
    ELSE IF ReturnsPayload(get_query_payload) THEN Res(s, g.out, "none", 0, 0)
    ELSE ToTable(query_tap(s, g.out.sql, tap_urls, answer))

\* the caller's object after the call: the dict it passed, as _gen_sql left it
Held(pl, g) == IF pl = None THEN None ELSE Dict(g.payload)

QueryAsyncEnd(s, pl, g, get_query_payload, tap_urls, answer) ==
    QRes(AfterGenSql(s, g, get_query_payload, tap_urls, answer),
         Held(pl, g), g.registry)

\* query_async(payload, get_query_payload=..., **kwargs)
query_async(s, pl, reg, kwargs, get_query_payload, tap_urls, answer) ==
    QueryAsyncEnd(s, pl,
                  _gen_sql(MergeKwargs(IF pl = None THEN << >> ELSE pl.d, kwargs, 1), reg),
                  get_query_payload, tap_urls, answer)

\* query_object_async(object_name, payload=..., **kwargs)
query_object_async(s, object_name, pl, reg, kwargs, get_query_payload, tap_urls, answer) ==
    LET p1 == IF pl # None THEN Dict(Put(pl.d, "source_name_resolver", object_name))
              ELSE Dict(<<[k |-> "source_name_resolver", v |-> object_name]>>)
    IN  [query_async(s, p1, reg, kwargs, get_query_payload, tap_urls, answer)
           EXCEPT !.payload = IF pl # None THEN @ ELSE None]

\* coordinates that commons.parse_coordinates accepts, as obj_coord.to_string()
\* prints them; any other input makes it raise
ParsedCoordinates == {"10.5 20.3"}

\* query_region_async(coordinate, radius, payload=..., **kwargs)
query_region_async(s, coordinate, radius, pl, reg, kwargs, get_query_payload, tap_urls, answer) ==
    IF coordinate \notin ParsedCoordinates
    THEN QRes(Res(s, None, "ValueError", 0, 0), pl, reg)
    ELSE
      LET ra_dec == <<coordinate, ", ", radius>>
          d0 == IF pl = None THEN << >> ELSE pl.d
          d1 == IF HasKey(d0, "ra_dec")
                THEN Put(d0, "ra_dec", Get(d0, "ra_dec") \o <<" | ">> \o ra_dec)
                ELSE Put(d0, "ra_dec", ra_dec)
      IN  [query_async(s, Dict(d1), reg, kwargs, get_query_payload, tap_urls, answer)
             EXCEPT !.payload = IF pl # None THEN @ ELSE None]

\* ------------------------------------------------------------------ state
\* last: the operation completed last (op), the URL slot of its role, the
\* inputs it was given (arg, flag, env: the contents of tap_urls), what it
\* returned or raised, and how often it invoked the provider and tap.search
NoOp ==
    [op |-> "none", slot |-> "none", arg |-> "none", env |-> << >>,
     flag |-> FALSE, ret |-> None, exc |-> "none", fetched |-> 0, searched |-> 0]

\* returned: the first URL each URL property gave back; failed: the URL slots
\* whose resolution raised; provFailed: those where the provider raised;
\* firstOut: what the first compilation of the caller's mapping gave; between:
\* whether another mapping was compiled since
NoHist ==
    [returned |-> [sl \in UrlSlots |-> None], failed |-> {}, provFailed |-> {},
     firstOut |-> None, between |-> FALSE]

Contexts == {1, 2}
Idle == [pc |-> "idle", slot |-> "none", base |-> None, ret |-> None,
         exc |-> "none", fetched |-> 0, first |-> FALSE]

\* the mappings the compiler is tried on
LogicalNames ==
    {"source_name_resolver", "source_name_alma", "ra_dec", "galactic",
     "spatial_resolution", "spatial_scale_max", "fov"}
SqlKeys == LogicalNames \cup {"s_fov", "em_resolution", "bogus_field"}
APosition == <<"10.5 20.3", ", ", "0.1">>
SqlValues == { << >>, <<"5">>, APosition }
Items == [k : SqlKeys, v : SqlValues]
Mappings(n) ==
    { d \in UNION { [1..m -> Items] : m \in 0..n } :
        \A i, j \in 1..Len(d) : d[i].k = d[j].k => i = j }
OtherMappings ==
    { <<[k |-> "fov", v |-> <<"7">>]>>,
      <<[k |-> "bogus_field", v |-> <<"x">>], [k |-> "ra_dec", v |-> APosition]>> }

\* the payloads, keyword arguments and names the query methods are tried on
InitPayloads ==
    { None, Dict(<< >>), Dict(<<[k |-> "fov", v |-> <<"7">>]>>),
      Dict(<<[k |-> "bogus_field", v |-> <<"x">>]>>),
      Dict(<<[k |-> "ra_dec", v |-> APosition]>>) }
KwargsChoices == { << >>, <<[k |-> "fov", v |-> <<"7">>]>> }
ObjectNames == { <<"M31">> }
Coordinates == { "10.5 20.3", "no such place" }
Radii == { "0.1" }
\* the world a call meets: the contents of tap_urls and the service's answer
Worlds ==
    { [tap_urls |-> << >>, answer |-> "result"],
      [tap_urls |-> <<ArchiveFile>>, answer |-> "result"],
      [tap_urls |-> <<ArchiveSub, ArchiveRoot>>, answer |-> "None"],
      [tap_urls |-> <<ArchiveFile>>, answer |-> "DALServiceError"] }

InitCommon ==
    /\ registry = NRAO_FORM_KEYS
    /\ self = NewInstance
    /\ last = NoOp
    /\ hist = NoHist
    /\ ctx = [c \in Contexts |-> Idle]

Init == payload = None /\ InitCommon

InitQuery == payload \in InitPayloads /\ InitCommon

\* mappings of three constraints with one empty value, first, between or last
NeighbourMappings ==
    LET a == [k |-> "fov", v |-> <<"5">>]
        b == [k |-> "ra_dec", v |-> APosition]
    IN  UNION { { <<e, a, b>>, <<a, e, b>>, <<a, b, e>> } :
                e \in [k : {"source_name_alma", "galactic", "spatial_scale_max"},
                       v : { << >> }] }

InitSql ==
    /\ payload \in { Dict(d) : d \in Mappings(MaxLen) \cup NeighbourMappings }
    /\ InitCommon

\* ---------------------------------------------------- compiler alone (SpecSql)
OutExc(out) == IF out.kind = "return" THEN "none" ELSE out.kind

\* the caller compiles the mapping it holds
Compile ==
    LET g == _gen_sql(payload.d, registry)
    IN  /\ payload' = Dict(g.payload)
        /\ registry' = g.registry
        /\ last' = [NoOp EXCEPT !.op = "_gen_sql", !.arg = "payload",
                                !.ret = g.out, !.exc = OutExc(g.out)]
        /\ hist' = [hist EXCEPT !.firstOut = IF @ = None THEN g.out ELSE @]
        /\ UNCHANGED <<self, ctx>>

\* the caller compiles another mapping in between
CompileOther ==
    \E d \in OtherMappings :
      LET g == _gen_sql(d, registry)
      IN  /\ hist.firstOut # None
          /\ registry' = g.registry
          /\ last' = [NoOp EXCEPT !.op = "_gen_sql", !.arg = "other",
                                  !.ret = g.out, !.exc = OutExc(g.out)]
          /\ hist' = [hist EXCEPT !.between = TRUE]
          /\ UNCHANGED <<payload, self, ctx>>

NextSql == Compile \/ CompileOther

SpecSql == InitSql /\ [][NextSql]_vars

\* ------------------------------------------------- the instance's operations
UrlOps == {"tap_url", "sia_url", "datalink_url"}
HandleOps == {"tap", "sia", "datalink"}
QueryOps == {"query_async", "query_object_async", "query_region_async"}

\* whether resolving slot raised in an operation with result r
ResolutionFailed(r, slot, pre) ==
    r.exc \in {"IndexError", "NameError"} /\ ~Truthy(pre[slot])

HistAfter(op, slot, r) ==
    [hist EXCEPT
       !.returned[slot] = IF @ = None /\ op \in UrlOps /\ r.exc = "none"
                          THEN r.ret ELSE @,
       !.failed = IF ResolutionFailed(r, slot, self) THEN @ \cup {slot} ELSE @,
       !.provFailed = IF r.exc = "IndexError" THEN @ \cup {slot} ELSE @]

\* an access of a URL property or of a handle property, with result r
Access(op, slot, r, tap_urls) ==
    /\ self' = r.self
    /\ last' = [NoOp EXCEPT !.op = op, !.slot = slot, !.env = tap_urls,
                            !.ret = r.ret, !.exc = r.exc, !.fetched = r.fetched]
    /\ hist' = HistAfter(op, slot, r)
    /\ UNCHANGED <<payload, registry, ctx>>

AccessTapUrl ==
    \E tu \in TapUrlsChoices : Access("tap_url", "_tap_url", tap_url(self, tu), tu)

AccessSiaUrl ==
    \E tu \in TapUrlsChoices : Access("sia_url", "_sia_url", sia_url(self, tu), tu)

AccessDatalinkUrl ==
    \E tu \in TapUrlsChoices :
      Access("datalink_url", "_datalink_url", datalink_url(self, tu), tu)

AccessTap ==
    \E tu \in TapUrlsChoices : Access("tap", "_tap_url", tap(self, tu), tu)

AccessSia ==
    \E tu \in TapUrlsChoices : Access("sia", "_sia_url", sia(self, tu), tu)

AccessDatalink ==
    \E tu \in TapUrlsChoices : Access("datalink", "_datalink_url", datalink(self, tu), tu)

\* the bounds on the caller's mapping
WithinBounds(pl) ==
    pl # None =>
      /\ Len(pl.d) <= MaxLen
      /\ \A i \in 1..Len(pl.d) : Len(pl.d[i].v) <= MaxValLen

\* a call of query_tap or of a query method, with result r (a QRes)
Call(op, r, flag, tap_urls) ==
    /\ WithinBounds(r.payload)
    /\ self' = r.self
    /\ payload' = r.payload
    /\ registry' = r.registry
    /\ last' = [NoOp EXCEPT !.op = op, !.slot = "_tap_url", !.env = tap_urls,
                            !.flag = flag, !.ret = r.ret, !.exc = r.exc,
                            !.fetched = r.fetched, !.searched = r.searched]
    /\ hist' = HistAfter(op, "_tap_url", r)
    /\ UNCHANGED ctx

QueryTap ==
    \E w \in Worlds :
      Call("query_tap",
           QRes(query_tap(self, BaseSelect, w.tap_urls, w.answer), payload, registry),
           FALSE, w.tap_urls)

QueryAsync ==
    \E kwargs \in KwargsChoices, flag \in BOOLEAN, w \in Worlds :
      Call("query_async",
           query_async(self, payload, registry, kwargs, flag, w.tap_urls, w.answer),
           flag, w.tap_urls)

QueryObjectAsync ==
    \E name \in ObjectNames, kwargs \in KwargsChoices, flag \in BOOLEAN, w \in Worlds :
      Call("query_object_async",
           query_object_async(self, name, payload, registry, kwargs, flag,
                              w.tap_urls, w.answer),
           flag, w.tap_urls)

QueryRegionAsync ==
    \E coordinate \in Coordinates, radius \in Radii, kwargs \in KwargsChoices,
       flag \in BOOLEAN, w \in Worlds :
      Call("query_region_async",
           query_region_async(self, coordinate, radius, payload, registry, kwargs,
                              flag, w.tap_urls, w.answer),
           flag, w.tap_urls)

\* the endpoint resolver under every operation of the instance
Next ==
    \/ AccessTapUrl
    \/ AccessSiaUrl
    \/ AccessDatalinkUrl
    \/ AccessTap
    \/ AccessSia
    \/ AccessDatalink
    \/ QueryTap
    \/ QueryAsync

Spec == Init /\ [][Next]_vars

\* the query methods on a mapping the caller holds
NextQuery ==
    \/ QueryAsync
    \/ QueryObjectAsync
    \/ QueryRegionAsync

SpecQuery == InitQuery /\ [][NextQuery]_vars

\* ------------------------------------- concurrent accesses of a URL property
\* the global each URL property reads for its path suffix
PathName(slot) ==
    CASE slot = "_tap_url" -> "TAP_SERVICE_PATH"
      [] slot = "_sia_url" -> "SIA_SERVICE_PATH"
      [] slot = "_datalink_url" -> "DATALINK_SERVICE_PATH"

InitConc == payload = None /\ InitCommon

\* a context starts reading a URL property
Begin(c) ==
    \E slot \in UrlSlots :
      /\ ctx[c].pc \in {"idle", "done"}
      /\ ctx' = [ctx EXCEPT ![c] = [Idle EXCEPT !.pc = "check", !.slot = slot]]
      /\ UNCHANGED <<payload, registry, self, last, hist>>

\* `if not self._x_url:`
Check(c) ==
    /\ ctx[c].pc = "check"
    /\ ctx' = [ctx EXCEPT ![c].pc = IF NeedsResolution(self, ctx[c].slot)
                                    THEN "fetch" ELSE "return",
                          ![c].first = NeedsResolution(self, ctx[c].slot)]
    /\ UNCHANGED <<payload, registry, self, last, hist>>

\* `self._get_dataarchive_url()`
Fetch(c) ==
    \E tu \in TapUrlsChoices :
      LET b == _get_dataarchive_url(tu)
      IN  /\ ctx[c].pc = "fetch"
          /\ ctx' = [ctx EXCEPT ![c].pc = IF b.exc # "none" THEN "done" ELSE "store",
                                ![c].exc = b.exc,
                                ![c].base = b.v,
                                ![c].fetched = 1]
          /\ UNCHANGED <<payload, registry, self, last, hist>>

\* `self._x_url = urljoin(<base>, X_SERVICE_PATH)`
Store(c) ==
    LET p == LoadGlobal(PathName(ctx[c].slot))
    IN  /\ ctx[c].pc = "store"
        /\ IF p.ok
           THEN /\ self' = [self EXCEPT ![ctx[c].slot] = urljoin(ctx[c].base, p.v)]
                /\ ctx' = [ctx EXCEPT ![c].pc = "return"]
           ELSE /\ self' = self
                /\ ctx' = [ctx EXCEPT ![c].pc = "done", ![c].exc = "NameError"]
        /\ UNCHANGED <<payload, registry, last, hist>>

\* `return self._x_url`
Return(c) ==
    /\ ctx[c].pc = "return"
    /\ ctx' = [ctx EXCEPT ![c].pc = "done", ![c].ret = self[ctx[c].slot]]
    /\ UNCHANGED <<payload, registry, self, last, hist>>

NextConc == \E c \in Contexts : Begin(c) \/ Check(c) \/ Fetch(c) \/ Store(c) \/ Return(c)

SpecConc == InitConc /\ [][NextConc]_vars

\* ============================================================== properties
\* What the statements below compare the code's results with.

\* the lists of the registry, flattened
RegistryAttribs == AttribsFrom(NRAO_FORM_KEYS, 1)

\* a key resolves when some list of the registry holds it
Resolves(key) == \E j \in 1..Len(RegistryAttribs) : InAttrib(key, RegistryAttribs[j])

\* what the registered encoder makes of one resolved item
Encoded(item) ==
    LET a == RegistryAttribs[CHOOSE j \in 1..Len(RegistryAttribs) :
                               InAttrib(item.k, RegistryAttribs[j])]
    IN  CallEncoder(a[3], a[2], item.v)

\* every resolved item of d carries a value its encoder interprets
AllAccepted(d) == \A i \in 1..Len(d) : Resolves(d[i].k) => Encoded(d[i]).ok

\* the 'key -> value' strings of the unresolved items of d, in d's order
UnresolvedPairs(d) ==
    LET u == SelectSeq(d, LAMBDA item : ~Resolves(item.k))
    IN  [i \in 1..Len(u) |-> <<u[i].k, " -> ">> \o u[i].v]

\* the non-empty fragments of d's items from position i on, joined by ' AND '
RECURSIVE JoinedFrom(_, _, _)
JoinedFrom(d, i, started) ==
    IF i > Len(d) THEN << >>
    ELSE LET f == Encoded(d[i]).frag
         IN  IF f = << >> THEN JoinedFrom(d, i + 1, started)
             ELSE (IF started THEN <<" AND ">> ELSE << >>) \o f
                  \o JoinedFrom(d, i + 1, TRUE)

ExpectedSql(d) ==
    LET j == JoinedFrom(d, 1, FALSE)
    IN  BaseSelect \o (IF j = << >> THEN << >> ELSE <<" WHERE ">> \o j)

\* the last operation compiled the mapping the caller holds
CompiledPayload == last.op = "_gen_sql" /\ last.arg = "payload"

\* the per-role path suffix table of the design
RoleSuffix == [_tap_url |-> "tap", _sia_url |-> "sia", _datalink_url |-> "datalink"]

\* the slots of the role whose URL slot is given
RoleSlots(slot) ==
    CASE slot = "_tap_url" -> {"_tap_url", "_tap"}
      [] slot = "_sia_url" -> {"_sia_url", "_sia"}
      [] slot = "_datalink_url" -> {"_datalink_url", "_datalink"}

\* C1 as stated: whenever the compiled mapping holds a key that resolves to no
\* registry entry, _gen_sql raises the unsupported-arguments error (TypeError)
\* listing exactly the unresolved 'key -> value' pairs in insertion order.
C1_UnresolvedAlwaysReported ==
    (CompiledPayload /\ \E i \in 1..Len(payload.d) : ~Resolves(payload.d[i].k))
    => /\ last.ret.kind = "TypeError"
       /\ last.ret.remaining = UnresolvedPairs(payload.d)

\* C1 amended: when the mapping holds an unresolved key, _gen_sql returns no
\* query string; if every resolved key carries a value its encoder interprets,
\* it raises the unsupported-arguments error listing exactly the unresolved
\* 'key -> value' pairs in insertion order, and otherwise the encoder's error
\* is raised before the leftovers are looked at.
C1_UnresolvedReportedUnlessEncoderRaises ==
    (CompiledPayload /\ \E i \in 1..Len(payload.d) : ~Resolves(payload.d[i].k))
    => /\ last.ret.kind # "return"
       /\ last.ret.sql = << >>
       /\ AllAccepted(payload.d)
            => /\ last.ret.kind = "TypeError"
               /\ last.ret.remaining = UnresolvedPairs(payload.d)
       /\ ~AllAccepted(payload.d) => last.ret.kind = "ValueError"

\* C1 witness: the error was raised for a resolved key followed by an
\* unresolved one, and lists only the latter.
C1_Witness ==
    /\ CompiledPayload
    /\ Len(payload.d) = 2
    /\ Resolves(payload.d[1].k)
    /\ ~Resolves(payload.d[2].k)
    /\ last.ret.kind = "TypeError"
    /\ Len(last.ret.remaining) = 1

\* C2 as stated: a mapping whose keys are all logical field names of the
\* registry never raises the validation error and returns a query string.
C2_RecognizedAlwaysCompile ==
    (CompiledPayload /\ \A i \in 1..Len(payload.d) : payload.d[i].k \in LogicalNames)
    => last.ret.kind = "return"

\* C2 amended: a mapping whose keys are all logical field names of the
\* registry never raises the unsupported-arguments error; it returns a query
\* string exactly when every value is one its encoder interprets, and raises
\* the encoder's error otherwise.
C2_RecognizedNeverUnsupported ==
    (CompiledPayload /\ \A i \in 1..Len(payload.d) : payload.d[i].k \in LogicalNames)
    => /\ last.ret.kind # "TypeError"
       /\ last.ret.kind = "return" <=> AllAccepted(payload.d)
       /\ last.ret.kind \in {"return", "ValueError"}

\* C2 witness: two logical field names compiled to a query.
C2_Witness ==
    /\ CompiledPayload
    /\ Len(payload.d) = 2
    /\ \A i \in 1..2 : payload.d[i].k \in LogicalNames
    /\ last.ret.kind = "return"

\* C3: for a mapping of recognized keys the returned string is the base select
\* followed, iff some encoder gave a non-empty fragment, by ' WHERE ' and the
\* non-empty fragments joined by ' AND ' in the order supplied; the empty
\* mapping gives exactly the base select.
C3_QueryShape ==
    (CompiledPayload /\ \A i \in 1..Len(payload.d) : Resolves(payload.d[i].k))
    => /\ last.ret.kind = "return" => last.ret.sql = ExpectedSql(payload.d)
       /\ payload.d = << >> => last.ret = Returned(BaseSelect)

\* C3 witness: a query with the fragments of two constraints.
C3_Witness ==
    /\ CompiledPayload
    /\ last.ret.kind = "return"
    /\ Len(payload.d) = 2
    /\ Encoded(payload.d[1]).frag # << >>
    /\ Encoded(payload.d[2]).frag # << >>
    /\ payload.d[1].k # payload.d[2].k

\* C4: the first access of a role's URL property, when the provider returns a
\* base URL, returns the base joined with the role's suffix and caches it.
C4_FirstAccessJoinsSuffix ==
    (last.op \in UrlOps /\ last.fetched = 1 /\ Len(last.env) > 0)
    => /\ last.exc = "none"
       /\ last.ret = urljoin(last.env[1], RoleSuffix[last.slot])
       /\ self[last.slot] = last.ret

\* C5: once a URL property has returned a URL, the slot keeps it, and every
\* later access of that property returns it without invoking the provider.
C5_CachedUrlIsStable ==
    [][\A sl \in UrlSlots :
         hist.returned[sl] # None
         => /\ self'[sl] = hist.returned[sl]
            /\ hist'.returned[sl] = hist.returned[sl]
            /\ (last'.op \in UrlOps /\ last'.slot = sl)
                 => /\ last'.exc = "none"
                    /\ last'.ret = hist.returned[sl]
                    /\ last'.fetched = 0]_vars

\* C5 witness: an access of tap_url served from the slot, after the handle
\* was built on it.
C5_Witness ==
    /\ last.op = "tap_url"
    /\ last.exc = "none"
    /\ last.fetched = 0
    /\ last.ret = hist.returned["_tap_url"]
    /\ self._tap # None

\* C6: a failed resolution of one role changes no slot of another role, and a
\* later resolution of tap_url succeeds whenever the provider returns a base.
C6_FailureIsolated ==
    [][/\ (last'.op \in UrlOps \cup HandleOps /\ last'.exc # "none")
            => \A x \in (UrlSlots \cup HandleSlots) \ RoleSlots(last'.slot) :
                 self'[x] = self[x]
       /\ (last'.op = "tap_url" /\ hist.failed \ {"_tap_url"} # {}
             /\ Len(last'.env) > 0)
            => /\ last'.exc = "none"
               /\ last'.ret # None
               /\ self'._tap_url = last'.ret]_vars

\* C6 witness: sia_url failed while tap_url was cached, and tap_url is intact.
C6_Witness ==
    /\ last.op = "sia_url"
    /\ last.exc # "none"
    /\ self._tap_url # None
    /\ self._tap_url = hist.returned["_tap_url"]

\* C7: when the provider fails, the access raises, having invoked it once, and
\* the slot stays unset; a later access of the same role invokes the provider
\* again and succeeds if the provider then succeeds.
C7_ProviderFailureNotCached ==
    /\ (last.op \in UrlOps /\ last.exc = "IndexError")
         => /\ last.fetched = 1
            /\ self[last.slot] = None
    /\ (last.op \in UrlOps /\ last.slot \in hist.provFailed
          /\ last.fetched = 1 /\ Len(last.env) > 0)
         => /\ last.exc = "none"
            /\ self[last.slot] = last.ret

\* C8: a query method called with get_query_payload=True gives back what
\* _gen_sql compiles, invokes neither tap.search nor the provider, and leaves
\* the six slots as they were.
C8_PayloadOnly ==
    [][(last'.op \in QueryOps /\ last'.flag)
         => /\ self' = self
            /\ last'.searched = 0
            /\ last'.fetched = 0
            /\ last'.exc = "none"
                 => /\ last'.ret.tag = "outcome"
                    /\ payload' # None
                         => last'.ret = _gen_sql(payload'.d, registry').out]_vars

\* C8 witness: a query string handed back by an instance whose tap slots are set.
C8_Witness ==
    /\ last.op \in QueryOps
    /\ last.flag
    /\ last.exc = "none"
    /\ payload # None
    /\ self._tap # None
    /\ self._tap_url # None

\* C9: _gen_sql changes neither the mapping it is given nor the registry, and
\* compiling the caller's mapping again gives what its first compilation gave.
C9_CompileHasNoEffect ==
    [][last'.op = "_gen_sql"
         => /\ payload' = payload
            /\ registry' = registry
            /\ (last'.arg = "payload" /\ hist.firstOut # None)
                 => last'.ret = hist.firstOut]_vars

\* C9 witness: the caller's mapping compiled again after another mapping was.
C9_Witness ==
    /\ CompiledPayload
    /\ hist.between
    /\ last.ret = hist.firstOut
    /\ Len(payload.d) = 2

\* C10: when two contexts both perform the first access of one role (each
\* found the slot unset) and both obtain a URL, the provider was invoked at
\* most once for the two accesses and the two URLs are the same.
C10_AtMostOneFetch ==
    \A c1, c2 \in Contexts :
      (/\ c1 # c2
       /\ ctx[c1].slot = ctx[c2].slot
       /\ ctx[c1].first /\ ctx[c2].first
       /\ ctx[c1].pc = "done" /\ ctx[c2].pc = "done"
       /\ ctx[c1].exc = "none" /\ ctx[c2].exc = "none")
      => /\ ctx[c1].fetched + ctx[c2].fetched <= 1
         /\ ctx[c1].ret = ctx[c2].ret

\* the 'key -> value' strings of the items of d whose key is no logical field
\* name, in d's order
NotLogicalPairs(d) ==
    LET u == SelectSeq(d, LAMBDA item : item.k \notin LogicalNames)
    IN  [i \in 1..Len(u) |-> <<u[i].k, " -> ">> \o u[i].v]

\* C11: resolution is by logical field name only: a mapping holding a key
\* that is no logical_name of the registry (a target-column string such as
\* 's_fov' included) gives no query, and the unsupported-arguments error lists
\* exactly the pairs whose key is no logical_name.
C11_ResolvedByLogicalNameOnly ==
    CompiledPayload
    => /\ (\E i \in 1..Len(payload.d) : payload.d[i].k \notin LogicalNames)
            => last.ret.kind # "return"
       /\ last.ret.kind = "TypeError"
            => last.ret.remaining = NotLogicalPairs(payload.d)

\* every string of the registry: display labels, logical names, column strings
RegistryStrings ==
    UNION { UNION { { NRAO_FORM_KEYS[c].attribs[i].label,
                      NRAO_FORM_KEYS[c].attribs[i].attrib[1],
                      NRAO_FORM_KEYS[c].attribs[i].attrib[2] } :
                    i \in 1..Len(NRAO_FORM_KEYS[c].attribs) } :
            c \in 1..Len(NRAO_FORM_KEYS) }

\* how many lists of the nested scan hold the key
MatchCount(key) ==
    Cardinality({ j \in 1..Len(RegistryAttribs) : InAttrib(key, RegistryAttribs[j]) })

\* C12: every str key (a key outside the registry's strings matches nothing)
\* is held by at most one list of NRAO_FORM_KEYS, and no compilation ends in
\* the KeyError of a second unused_payload.pop of one key.
C12_AtMostOneMatch ==
    /\ \A key \in RegistryStrings \cup SqlKeys : MatchCount(key) <= 1
    /\ last.op = "_gen_sql" => last.ret.kind # "KeyError"

\* C12 witness: a key that is both the logical name and the column string of
\* its entry was matched once and compiled with a second constraint.
C12_Witness ==
    /\ CompiledPayload
    /\ last.ret.kind = "return"
    /\ Len(payload.d) = 2
    /\ payload.d[1].k = "spatial_resolution"
    /\ payload.d[1].v # << >>
    /\ MatchCount(payload.d[1].k) = 1

\* a recognized item whose encoder accepts the value and gives the empty string
EmptyConsumed(item) ==
    Resolves(item.k) /\ Encoded(item).ok /\ Encoded(item).frag = << >>

\* d without those items
WithoutEmpty(d) == SelectSeq(d, LAMBDA item : ~EmptyConsumed(item))

\* the separators ' WHERE ' and ' AND ' of sql each stand before a fragment
Separators == {" WHERE ", " AND "}
WellSeparated(sql) ==
    \A i \in 1..Len(sql) :
      sql[i] \in Separators => (i < Len(sql) /\ sql[i + 1] \notin Separators)

\* C13: a recognized constraint whose encoder returns the empty fragment is
\* consumed: it is never listed in the unsupported-arguments error, and the
\* call gives what it gives for the mapping without it, with every ' WHERE '
\* and ' AND ' of a returned query followed by a fragment.
C13_EmptyFragmentConsumed ==
    (CompiledPayload /\ \E i \in 1..Len(payload.d) : EmptyConsumed(payload.d[i]))
    => /\ \A i \in 1..Len(payload.d), n \in 1..Len(last.ret.remaining) :
            EmptyConsumed(payload.d[i]) => last.ret.remaining[n][1] # payload.d[i].k
       /\ last.ret = _gen_sql(WithoutEmpty(payload.d), registry).out
       /\ last.ret.kind = "return" => WellSeparated(last.ret.sql)

\* C13 witness: an empty fragment between two neighbours, whose fragments the
\* returned query joins by one ' AND '.
C13_Witness ==
    /\ CompiledPayload
    /\ Len(payload.d) = 3
    /\ EmptyConsumed(payload.d[2])
    /\ last.ret.kind = "return"
    /\ last.ret.sql = BaseSelect \o <<" WHERE ">> \o Encoded(payload.d[1]).frag
                        \o <<" AND ">> \o Encoded(payload.d[3]).frag
    /\ Encoded(payload.d[1]).frag # << >>
    /\ Encoded(payload.d[3]).frag # << >>

\* C14: a constraint with the key 'em_resolution' is consumed, never listed
\* as unsupported, and a mapping holding it alone returns the base select
\* with the fragment of _gen_numeric_sql('em_resolution', value).
C14_EmResolutionBypass ==
    (CompiledPayload /\ HasKey(payload.d, "em_resolution"))
    => /\ \A n \in 1..Len(last.ret.remaining) :
            last.ret.remaining[n][1] # "em_resolution"
       /\ LET enc == _gen_numeric_sql("em_resolution", Get(payload.d, "em_resolution"))
          IN  (Len(payload.d) = 1 /\ enc.ok)
              => last.ret = Returned(BaseSelect \o
                                     (IF enc.frag = << >> THEN << >>
                                      ELSE <<" WHERE ">> \o enc.frag))

\* r1 is what a call with get_query_payload=True gave and r2 what the same
\* call gave when repeated on the objects r1 left
SameAgain(r1, r2) == r2.ret = r1.ret /\ r2.exc = r1.exc

\* each query method, called twice with the same arguments on the mapping the
\* caller holds, gives the same both times
RepeatGivesSame ==
    \A kwargs \in KwargsChoices, name \in ObjectNames,
       coordinate \in Coordinates, radius \in Radii :
      /\ SameAgain(query_async(self, payload, registry, kwargs, TRUE, << >>, "result"),
                   query_async(self,
                               query_async(self, payload, registry, kwargs, TRUE,
                                           << >>, "result").payload,
                               registry, kwargs, TRUE, << >>, "result"))
      /\ SameAgain(query_object_async(self, name, payload, registry, kwargs, TRUE,
                                      << >>, "result"),
                   query_object_async(self, name,
                                      query_object_async(self, name, payload, registry,
                                                         kwargs, TRUE, << >>,
                                                         "result").payload,
                                      registry, kwargs, TRUE, << >>, "result"))
      /\ SameAgain(query_region_async(self, coordinate, radius, payload, registry,
                                      kwargs, TRUE, << >>, "result"),
                   query_region_async(self, coordinate, radius,
                                      query_region_async(self, coordinate, radius,
                                                         payload, registry, kwargs,
                                                         TRUE, << >>, "result").payload,
                                      registry, kwargs, TRUE, << >>, "result"))

\* C15: a call of query_async, query_object_async or query_region_async
\* leaves the mapping the caller passed as it was, and a call with
\* get_query_payload=True repeated with the same arguments on the same
\* mapping gives the same query string.
C15_CallerPayloadUnchanged ==
    [][last'.op \in QueryOps => (payload' = payload /\ RepeatGivesSame)]_vars
====
